---- MODULE Spec2Model ----
(***************************************************************************)
(* Model of to_atom.py: html_to_atom fetches a model-listing page, turns   *)
(* every <li x-test-model> item into an Atom entry, sorts the entries by   *)
(* their updated time (newest first) and writes atom.xml (all entries) and *)
(* atom-recent-20.xml (the first 20).                                      *)
(*                                                                         *)
(* Strings that the code inspects character by character (the URL, the     *)
(* file path, hrefs) are sequences of one-character strings.  An optional  *)
(* value (None, a missing tag, a missing attribute) is a sequence of       *)
(* length 0 or 1.  Instants are natural numbers.                           *)
(***************************************************************************)
EXTENDS Integers, Sequences, FiniteSets, TLC

VARIABLES
    url,                  \* the command-line argument
    page,                 \* the model items of the page behind url
    response,             \* how the fetch or the file read went, "none" before it
    pc,                   \* position of html_to_atom
    html_content,         \* optional: the page text once obtained
    base_url,
    base_feed_element,    \* optional: the <feed> shell
    models,               \* soup.find_all("li", x-test-model)
    entries_data,         \* list of (updated_dt, entry)
    recent_entries_data,
    files,                \* the two output files on disk
    log,                  \* what was printed, in order
    exit_code,            \* optional: the process exit code
    clock,                \* the latest reading of datetime.now
    clock_regressed       \* some reading was earlier than the one before it

vars == <<url, page, response, pc, html_content, base_url, base_feed_element,
          models, entries_data, recent_entries_data, files, log, exit_code,
          clock, clock_regressed>>

(***************************************************************************)
(* Bounds of the model.                                                    *)
(***************************************************************************)
\* longest document of the exhaustively enumerated short documents
MaxItems == 2
\* clock readings range over 0..MaxClock
MaxClock == 1
\* long documents have RecentLimit .. RecentLimit + MaxExtra items
MaxExtra == 1

(***************************************************************************)
(* Program constants.                                                      *)
(***************************************************************************)
\* entries_data[:20]
RecentLimit == 20
\* url[7:]
FilePrefixLen == 7

output_full_filename == "atom.xml"
output_recent_filename == "atom-recent-20.xml"
FileNames == {output_full_filename, output_recent_filename}

FilePrefix == <<"f", "i", "l", "e", ":", "/", "/">>

(***************************************************************************)
(* Generic sequence helpers (Python slicing and string methods).           *)
(***************************************************************************)
Min(a, b) == IF a <= b THEN a ELSE b

\* s[:n]
Take(s, n) == SubSeq(s, 1, Min(n, Len(s)))

\* s[n:]
Drop(s, n) == SubSeq(s, Min(n, Len(s)) + 1, Len(s))

\* s.startswith(p)
StartsWith(s, p) == Len(s) >= Len(p) /\ SubSeq(s, 1, Len(p)) = p

IsPrefix(p, s) == Len(p) <= Len(s) /\ SubSeq(s, 1, Len(p)) = p

\* s.rfind(c) + 1: the 1-based position of the last c in s, 0 when there is none
RECURSIVE RFind(_, _)
RFind(s, c) ==
    IF s = <<>> THEN 0
    ELSE IF s[Len(s)] = c THEN Len(s)
    ELSE RFind(SubSeq(s, 1, Len(s) - 1), c)

\* s.rstrip(c)
RECURSIVE RStrip(_, _)
RStrip(s, c) ==
    IF s # <<>> /\ s[Len(s)] = c THEN RStrip(SubSeq(s, 1, Len(s) - 1), c) ELSE s

\* s.find(c) + 1 for the first c at or after position from, 0 when there is none
RECURSIVE Find(_, _, _)
Find(s, c, from) ==
    IF from > Len(s) THEN 0
    ELSE IF s[from] = c THEN from
    ELSE Find(s, c, from + 1)

\* posixpath.dirname
dirname(p) ==
    LET i == RFind(p, "/")
        head == SubSeq(p, 1, i)
    IN  IF head # <<>> /\ RStrip(head, "/") # <<>> THEN RStrip(head, "/") ELSE head

(***************************************************************************)
(* urllib.parse.urljoin, for the references the pages carry: the empty     *)
(* reference and absolute-path references ("/library/x").                  *)
(***************************************************************************)
\* urlsplit: the scheme is what precedes the first ":" when that lies before
\* any "/"; position of that ":" or 0
SchemeEnd(s) ==
    LET colon == Find(s, ":", 1)
        slash == Find(s, "/", 1)
    IN  IF colon > 1 /\ (slash = 0 \/ colon < slash) THEN colon ELSE 0

\* urlsplit: the network location follows "//" and ends before the next "/"
Origin(s) ==
    LET c == SchemeEnd(s)
        rest == Drop(s, c)
    IN  IF StartsWith(rest, <<"/", "/">>)
        THEN LET stop == Find(rest, "/", 3)
             IN  Take(s, c) \o (IF stop = 0 THEN rest ELSE Take(rest, stop - 1))
        ELSE IF c > 0 THEN Take(s, c) \o <<"/", "/">> ELSE <<>>

\* urljoin dropping the reference
urljoinIgnoringRef(base, ref) == base

urljoin(base, ref) ==
    IF base = <<>> THEN ref
    ELSE IF ref = <<>> THEN base
    ELSE Origin(base) \o ref

(***************************************************************************)
(* Inputs: the command-line argument and the page behind it.               *)
(***************************************************************************)
\* "http://h/m"
HttpUrl == <<"h", "t", "t", "p", ":", "/", "/", "h", "/", "m">>
\* "file:///d/f"
FileUrl == FilePrefix \o <<"/", "d", "/", "f">>
Urls == {HttpUrl, FileUrl}

HrefA == <<"/", "a">>
HrefB == <<"/", "b">>

NoDate == [kind |-> "none", t |-> 0]
BadDate == [kind |-> "bad", t |-> 0]
Date(t) == [kind |-> "ok", t |-> t]

\* a model item with every sub-field present
FullItem ==
    [title |-> <<"llama">>,
     anchor |-> <<[href |-> <<HrefA>>]>>,
     description |-> <<"a model">>,
     date |-> Date(1),
     sizes |-> <<"7b", "70b">>,
     capabilities |-> <<"tools">>,
     pull_count |-> <<"5M">>,
     tag_count |-> <<"12">>]

\* a model item with no sub-field at all
EmptyItem ==
    [title |-> <<>>, anchor |-> <<>>, description |-> <<>>, date |-> NoDate,
     sizes |-> <<>>, capabilities |-> <<>>, pull_count |-> <<>>, tag_count |-> <<>>]

\* the full item with another href and an earlier date
OlderItem == [FullItem EXCEPT !.anchor = <<[href |-> <<HrefB>>]>>, !.date = Date(0)]

\* the full item with an anchor that has no href attribute
NoHrefItem == [FullItem EXCEPT !.anchor = <<[href |-> <<>>]>>]

\* the full item with a date that is not in the expected format
BadDateItem == [FullItem EXCEPT !.date = BadDate]

\* every value of every sub-field occurs: title, description, tags and
\* counters present or absent; no anchor, anchor without href, two hrefs; no
\* date, unparseable date, two dates
Items == {FullItem, EmptyItem, OlderItem, NoHrefItem, BadDateItem}

SeqsUpTo(S, n) == UNION {[1..k -> S] : k \in 0..n}

ShortDocs == SeqsUpTo(Items, MaxItems)

\* the padding of the long documents: an item dated at instant 0
Filler == [FullItem EXCEPT !.date = Date(0)]

\* n items, all Filler except item x at position pos
LongDoc(n, x, pos) == [i \in 1..n |-> IF i = pos THEN x ELSE Filler]

LongDocs ==
    UNION {{LongDoc(n, x, pos) : x \in Items, pos \in {1, n}} :
             n \in RecentLimit..(RecentLimit + MaxExtra)}

Documents == ShortDocs \cup LongDocs

Instants == 0..MaxClock

(***************************************************************************)
(* parse_timestamp, given the reading datetime.now would return.           *)
(***************************************************************************)
\* parse_timestamp falling back to instant 0 instead of the clock
parse_timestamp_epoch(title_attr, now) ==
    IF title_attr.kind = "ok" THEN title_attr.t ELSE 0

parse_timestamp(title_attr, now) ==
    IF title_attr.kind = "none" THEN now
    ELSE IF title_attr.kind = "ok" THEN title_attr.t
    ELSE now

\* parse_timestamp reads the clock only on its two fallback paths
ReadsClock(item) == item.date.kind # "ok"

\* datetime.isoformat of a timezone-aware UTC instant
isoformat(t) == <<t, "+00:00">>

(***************************************************************************)
(* create_base_feed_and_entries                                            *)
(***************************************************************************)
\* the <feed> shell: metadata children, no entry children
BaseFeed(base, now) ==
    [tag |-> "feed",
     title |-> "Ollama models",
     id |-> base,
     author |-> "Model Library",
     link |-> base,
     updated |-> isoformat(now),
     children |-> <<>>]

\* model.find("a")["href"] raises KeyError for an anchor without href
RaisesKeyError(item) == item.anchor # <<>> /\ item.anchor[1].href = <<>>

\* href = model.find("a")["href"] if model.find("a") else ""
HrefOf(item) == IF item.anchor # <<>> THEN item.anchor[1].href[1] ELSE <<>>

OrElse(opt, default) == IF opt # <<>> THEN opt[1] ELSE default

\* one iteration of the loop over models: the (updated_dt, entry) tuple
MakeEntry(item, base, now, n) ==
    LET title == OrElse(item.title, "Unknown Model")
        model_url == urljoin(base, HrefOf(item))
        description == OrElse(item.description, "")
        updated_dt == parse_timestamp(item.date, now)
        content == (IF description # "" THEN <<description>> ELSE <<>>)
                   \o <<OrElse(item.pull_count, "N/A")>>
                   \o <<OrElse(item.tag_count, "N/A")>>
    IN  [dt |-> updated_dt,
         entry |-> [tag |-> "entry",
                    elem |-> n,
                    title |-> title,
                    id |-> model_url,
                    link |-> model_url,
                    summary |-> description,
                    updated |-> isoformat(updated_dt),
                    categories |-> item.sizes \o item.capabilities,
                    content |-> content]]

(***************************************************************************)
(* entries_data.sort(key=lambda item: item[0], reverse=True)               *)
(***************************************************************************)
\* InsertDesc putting e in front of the elements with an equal key
InsertDescBeforeTies(sorted, e) ==
    LET later == {i \in 1..Len(sorted) : sorted[i].dt <= e.dt}
        at == IF later = {} THEN Len(sorted) + 1
              ELSE CHOOSE i \in later : \A j \in later : i <= j
    IN  SubSeq(sorted, 1, at - 1) \o <<e>> \o SubSeq(sorted, at, Len(sorted))

\* put e behind every element whose key is not smaller
InsertDesc(sorted, e) ==
    LET later == {i \in 1..Len(sorted) : sorted[i].dt < e.dt}
        at == IF later = {} THEN Len(sorted) + 1
              ELSE CHOOSE i \in later : \A j \in later : i <= j
    IN  SubSeq(sorted, 1, at - 1) \o <<e>> \o SubSeq(sorted, at, Len(sorted))

RECURSIVE SortDesc(_)
SortDesc(s) ==
    IF s = <<>> THEN <<>>
    ELSE InsertDesc(SortDesc(SubSeq(s, 1, Len(s) - 1)), s[Len(s)])

\* entries_data[:20] keeping one entry too many
RecentEntriesOffByOne(data) == Take(data, RecentLimit + 1)

\* entries_data[:20]
RecentEntries(data) == Take(data, RecentLimit)

(***************************************************************************)
(* save_atom_feed                                                          *)
(***************************************************************************)
Entries(data) == [i \in 1..Len(data) |-> data[i].entry]

\* copy.deepcopy(base_feed_element) followed by the appends
FeedCopy(base_feed, data) ==
    [base_feed EXCEPT !.children = @ \o Entries(data)]

\* BaseAfterSave when the entries are appended to base_feed_element itself
BaseAfterSaveNoCopy(base_feed, data) == FeedCopy(base_feed, data)

\* what the caller's base_feed_element is after the call: the appends went
\* to the copy
BaseAfterSave(base_feed, data) == base_feed

XmlDecl == [tag |-> "xmldecl"]
FeedEnd == [tag |-> "/feed"]
Stale == [tag |-> "stale"]

\* the text written: the XML declaration, then the serialized feed
Serialize(feed) ==
    <<XmlDecl>> \o <<[feed EXCEPT !.children = <<>>]>> \o feed.children \o <<FeedEnd>>

Absent == [exists |-> FALSE, data |-> <<>>]
FileWith(data) == [exists |-> TRUE, data |-> data]

\* the ways open/write/close can go: no fault, open() raising, or an error
\* raised after open() when only the first `flushed` pieces reached the file
Faults(doc) ==
    {[kind |-> "none", flushed |-> Len(doc)], [kind |-> "open", flushed |-> 0]}
    \cup {[kind |-> "write", flushed |-> k] : k \in 0..Len(doc)}

\* FileAfter when the file is opened with mode "a"
FileAfterAppending(old, doc, fault) ==
    IF fault.kind = "open" THEN old
    ELSE FileWith(old.data \o Take(doc, fault.flushed))

\* the file after open(filename, "w") and the writes
FileAfter(old, doc, fault) ==
    IF fault.kind = "open" THEN old
    ELSE FileWith(Take(doc, fault.flushed))

Msg(stream, text, arg) == [stream |-> stream, text |-> text, arg |-> arg]

\* the argument of a message that names the URL rather than a file
TheUrl == "<url>"

\* PropagatesToCaller without the "except IOError" clause
PropagatesUncaught(fault) == fault.kind # "none"

\* whether the fault leaves save_atom_feed as an exception: open() and the
\* writes raise IOError, which the function catches
PropagatesToCaller(fault) == FALSE

SaveMessage(filename, fault) ==
    IF fault.kind = "none"
    THEN Msg("stdout", "Successfully saved feed to", filename)
    ELSE Msg("stderr", "Error writing file", filename)

\* the effect of one save_atom_feed call
save_atom_feed(filename, base_feed, data, old, fault) ==
    LET doc == Serialize(FeedCopy(base_feed, data))
    IN  [base |-> BaseAfterSave(base_feed, data),
         file |-> FileAfter(old, doc, fault),
         message |-> SaveMessage(filename, fault)]

(***************************************************************************)
(* html_to_atom                                                            *)
(***************************************************************************)
\* atom.xml is left over from an earlier run, atom-recent-20.xml is not there
InitialFiles ==
    [f \in FileNames |-> IF f = output_full_filename THEN FileWith(<<Stale>>) ELSE Absent]

Init ==
    /\ url \in Urls
    /\ page \in Documents
    /\ response = "none"
    /\ pc = "start"
    /\ html_content = <<>>
    /\ base_url = <<>>
    /\ base_feed_element = <<>>
    /\ models = <<>>
    /\ entries_data = <<>>
    /\ recent_entries_data = <<>>
    /\ files = InitialFiles
    /\ log = <<>>
    /\ exit_code = <<>>
    /\ clock = 0
    /\ clock_regressed = FALSE

\* sys.exit(1) from one of the three except clauses
Abort(text, arg) ==
    /\ pc' = "exit"
    /\ exit_code' = <<1>>
    /\ log' = Append(log, Msg("stderr", text, arg))

\* datetime.now(timezone.utc) returning t
ReadClock(t) ==
    /\ clock' = t
    /\ clock_regressed' = (clock_regressed \/ t < clock)

LocalOutcomes == {"ok", "missing", "unreadable"}
HttpOutcomes == {"ok", "http_error", "connection_error", "timeout"}

\* Obtained without response.raise_for_status()
ObtainedWithoutStatusCheck(outcome) == outcome \in {"ok", "http_error"}

\* the outcomes after which the page text is in hand
Obtained(outcome) == outcome = "ok"

\* the file:// branch
ReadLocalFile ==
    /\ pc = "start"
    /\ StartsWith(url, FilePrefix)
    /\ \E outcome \in LocalOutcomes :
        /\ response' = outcome
        /\ IF Obtained(outcome)
           THEN /\ html_content' = <<page>>
                /\ base_url' = dirname(Drop(url, FilePrefixLen))
                /\ pc' = "parse"
                /\ UNCHANGED <<log, exit_code>>
           ELSE /\ IF outcome = "missing"
                   THEN Abort("Error accessing file", TheUrl)
                   ELSE Abort("An unexpected error occurred", TheUrl)
                /\ UNCHANGED <<html_content, base_url>>
    /\ UNCHANGED <<url, page, base_feed_element, models, entries_data,
                   recent_entries_data, files, clock, clock_regressed>>

\* the HTTP/S branch
FetchHttp ==
    /\ pc = "start"
    /\ ~StartsWith(url, FilePrefix)
    /\ \E outcome \in HttpOutcomes :
        /\ response' = outcome
        /\ IF Obtained(outcome)
           THEN /\ html_content' = <<page>>
                /\ base_url' = url
                /\ pc' = "parse"
                /\ UNCHANGED <<log, exit_code>>
           ELSE /\ Abort("Error fetching URL", TheUrl)
                /\ UNCHANGED <<html_content, base_url>>
    /\ UNCHANGED <<url, page, base_feed_element, models, entries_data,
                   recent_entries_data, files, clock, clock_regressed>>

\* BeautifulSoup(...), then the head of create_base_feed_and_entries
CreateBaseFeed ==
    /\ pc = "parse"
    /\ \E now \in Instants :
        /\ ReadClock(now)
        /\ base_feed_element' = <<BaseFeed(base_url, now)>>
    /\ models' = html_content[1]
    /\ entries_data' = <<>>
    /\ pc' = "extract"
    /\ UNCHANGED <<url, page, response, html_content, base_url,
                   recent_entries_data, files, log, exit_code>>

\* one iteration of "for model in models"
ExtractEntry ==
    /\ pc = "extract"
    /\ Len(entries_data) < Len(models)
    /\ LET n == Len(entries_data) + 1
           item == models[n]
       IN  IF RaisesKeyError(item)
           THEN /\ Abort("An unexpected error occurred", TheUrl)
                /\ UNCHANGED <<entries_data, clock, clock_regressed>>
           ELSE /\ IF ReadsClock(item)
                   THEN \E now \in Instants :
                            /\ ReadClock(now)
                            /\ entries_data' =
                                  Append(entries_data, MakeEntry(item, base_url, now, n))
                   ELSE /\ entries_data' =
                              Append(entries_data, MakeEntry(item, base_url, clock, n))
                        /\ UNCHANGED <<clock, clock_regressed>>
                /\ log' = IF item.date.kind = "bad"
                          THEN Append(log, Msg("stderr", "Warning: Could not parse timestamp", TheUrl))
                          ELSE log
                /\ UNCHANGED <<pc, exit_code>>
    /\ UNCHANGED <<url, page, response, html_content, base_url, base_feed_element,
                   models, recent_entries_data, files>>

\* the loop is over: return, then entries_data.sort(...)
SortEntries ==
    /\ pc = "extract"
    /\ Len(entries_data) = Len(models)
    /\ entries_data' = SortDesc(entries_data)
    /\ pc' = "save_full"
    /\ UNCHANGED <<url, page, response, html_content, base_url, base_feed_element,
                   models, recent_entries_data, files, log, exit_code, clock,
                   clock_regressed>>

\* save_atom_feed(output_full_filename, base_feed_element, entries_data)
SaveFull ==
    /\ pc = "save_full"
    /\ \E fault \in Faults(Serialize(FeedCopy(base_feed_element[1], entries_data))) :
        LET r == save_atom_feed(output_full_filename, base_feed_element[1],
                                entries_data, files[output_full_filename], fault)
        IN  /\ base_feed_element' = <<r.base>>
            /\ files' = [files EXCEPT ![output_full_filename] = r.file]
            /\ IF PropagatesToCaller(fault)
               THEN Abort("An unexpected error occurred", output_full_filename)
               ELSE /\ log' = Append(log, r.message)
                    /\ pc' = "save_recent"
                    /\ UNCHANGED exit_code
    /\ UNCHANGED <<url, page, response, html_content, base_url, models,
                   entries_data, recent_entries_data, clock, clock_regressed>>

\* recent_entries_data = entries_data[:20], the second save_atom_feed, exit 0
SaveRecent ==
    /\ pc = "save_recent"
    /\ LET recent == RecentEntries(entries_data)
       IN  /\ recent_entries_data' = recent
           /\ \E fault \in Faults(Serialize(FeedCopy(base_feed_element[1], recent))) :
               LET r == save_atom_feed(output_recent_filename, base_feed_element[1],
                                       recent, files[output_recent_filename], fault)
               IN  /\ base_feed_element' = <<r.base>>
                   /\ files' = [files EXCEPT ![output_recent_filename] = r.file]
                   /\ IF PropagatesToCaller(fault)
                      THEN Abort("An unexpected error occurred", output_recent_filename)
                      ELSE /\ log' = Append(log, r.message)
                           /\ pc' = "exit"
                           /\ exit_code' = <<0>>
    /\ UNCHANGED <<url, page, response, html_content, base_url, models,
                   entries_data, clock, clock_regressed>>

Next ==
    \/ ReadLocalFile
    \/ FetchHttp
    \/ CreateBaseFeed
    \/ ExtractEntry
    \/ SortEntries
    \/ SaveFull
    \/ SaveRecent

Spec == Init /\ [][Next]_vars

TypeOK ==
    /\ pc \in {"start", "parse", "extract", "save_full", "save_recent", "exit"}
    /\ exit_code \in {<<>>, <<0>>, <<1>>}
    /\ clock \in Instants

(***************************************************************************)
(* Vocabulary of the properties.                                           *)
(***************************************************************************)
InLog(m) == \E i \in DOMAIN log : log[i] = m

\* save_atom_feed reported success for file f
Saved(f) == InLog(Msg("stdout", "Successfully saved feed to", f))

\* save_atom_feed reported an I/O error for file f
ErrorWriting(f) == InLog(Msg("stderr", "Error writing file", f))

IsEntry(piece) == piece.tag = "entry"

\* the entries held by file f, in file order
FileEntries(f) == SelectSeq(files[f].data, IsEntry)

\* the list handed to the save_atom_feed call for file f
ListFor(f) ==
    IF f = output_full_filename THEN entries_data ELSE SubSeq(entries_data, 1, Min(RecentLimit, Len(entries_data)))

\* the whole text of file f: declaration, shell, the entries of its list, end
CompleteDoc(f) ==
    <<XmlDecl, base_feed_element[1]>> \o Entries(ListFor(f)) \o <<FeedEnd>>

\* the instant an entry carries in its <updated> element
UpdatedAt(e) == e.updated[1]

\* the entry got its instant from the clock
IsFallback(e) == models[e.elem].date.kind # "ok"

FeedUpdatedAt == base_feed_element[1].updated[1]

\* C1: atom.xml, once saved, lists all N extracted entries in non-increasing
\* order of their updated instant, and entries with equal instants keep the
\* order in which they were extracted.
C1_FullOutputSortedStable ==
    Saved(output_full_filename) =>
        LET es == FileEntries(output_full_filename)
        IN  /\ Len(es) = Len(models)
            /\ {es[i].elem : i \in DOMAIN es} = 1..Len(models)
            /\ \A i, j \in DOMAIN es :
                 i < j => \/ UpdatedAt(es[i]) > UpdatedAt(es[j])
                          \/ /\ UpdatedAt(es[i]) = UpdatedAt(es[j])
                             /\ es[i].elem < es[j].elem

\* atom.xml saved with a tie and with a pair the sort had to swap
C1_Witness ==
    /\ Saved(output_full_filename)
    /\ LET es == FileEntries(output_full_filename)
       IN  /\ \E i, j \in DOMAIN es : i < j /\ UpdatedAt(es[i]) = UpdatedAt(es[j])
           /\ \E i, j \in DOMAIN es : i < j /\ es[i].elem > es[j].elem

\* C2: atom-recent-20.xml, once saved, holds exactly min(20, N) entries, and
\* its i-th entry is the i-th entry of the sorted list and of atom.xml.
C2_RecentIsPrefix ==
    Saved(output_recent_filename) =>
        LET rs == FileEntries(output_recent_filename)
        IN  /\ Len(rs) = Min(RecentLimit, Len(models))
            /\ \A i \in DOMAIN rs :
                 /\ rs[i] = entries_data[i].entry
                 /\ Saved(output_full_filename) =>
                        rs[i] = FileEntries(output_full_filename)[i]

\* both files saved from a page with more than 20 items
C2_Witness ==
    /\ Saved(output_recent_filename)
    /\ Saved(output_full_filename)
    /\ Len(models) > RecentLimit
    /\ Len(FileEntries(output_recent_filename)) = RecentLimit
    /\ Len(FileEntries(output_full_filename)) > RecentLimit

C4_WritesIndependent ==
    [][/\ pc = "save_full" =>
            /\ pc' = "save_recent"
            /\ exit_code' = <<>>
            /\ Saved(output_full_filename)' \/ ErrorWriting(output_full_filename)'
       /\ pc = "save_recent" =>
            /\ files'[output_full_filename] = files[output_full_filename]
            /\ Saved(output_recent_filename)' \/ ErrorWriting(output_recent_filename)'
            /\ exit_code' = <<0>>]_vars

\* the first write failed and the second one succeeded
C4_Witness ==
    /\ ErrorWriting(output_full_filename)
    /\ Saved(output_recent_filename)
    /\ files[output_recent_filename] = FileWith(CompleteDoc(output_recent_filename))

\* C5 as stated: each file is either as it was before the run or holds the
\* complete document.
C5_AllOrNothing ==
    \A f \in FileNames :
        \/ files[f] = InitialFiles[f]
        \/ files[f] = FileWith(CompleteDoc(f))

\* C5 amended: a file is as it was before the run (not yet written, or
\* open() failed), or it has been truncated and holds a leading part of the
\* document; the part is the whole document when the save was reported
\* successful, and anything short of it comes with a reported error.
C5_UntouchedOrLeadingPart ==
    \A f \in FileNames :
        \/ files[f] = InitialFiles[f] /\ ~Saved(f)
        \/ /\ files[f].exists
           /\ IsPrefix(files[f].data, CompleteDoc(f))
           /\ Saved(f) => files[f].data = CompleteDoc(f)
           /\ files[f].data # CompleteDoc(f) => ErrorWriting(f)

\* atom.xml was cut short: it lost its old content and holds the declaration
\* and the shell but not the end of the document
C5_Witness ==
    /\ ErrorWriting(output_full_filename)
    /\ files[output_full_filename].exists
    /\ Len(files[output_full_filename].data) >= 2
    /\ Len(files[output_full_filename].data) < Len(CompleteDoc(output_full_filename))

\* C6 as stated: no two entries of a saved file carry the same id.
C6_UniqueIds ==
    \A f \in FileNames :
        Saved(f) =>
            LET es == FileEntries(f)
            IN  \A i, j \in DOMAIN es : i # j => es[i].id # es[j].id

\* the resolved URL of the item an entry was made from: the base itself for an
\* item without anchor, else a leading part of the base followed by the href
IsResolved(id, item) ==
    IF item.anchor = <<>> THEN id = base_url
    ELSE \E k \in 0..Len(base_url) : id = SubSeq(base_url, 1, k) \o item.anchor[1].href[1]

\* C6 amended: every entry of a saved file has as id (and link) the href of
\* its item's first anchor resolved against the base URL, the base URL itself
\* when the item has no anchor; entries of items with the same href, or both
\* without anchor, carry the same id.
C6_IdIsResolvedHref ==
    \A f \in FileNames :
        Saved(f) =>
            LET es == FileEntries(f)
            IN  /\ \A i \in DOMAIN es :
                     /\ IsResolved(es[i].id, models[es[i].elem])
                     /\ es[i].link = es[i].id
                /\ \A i, j \in DOMAIN es :
                     models[es[i].elem].anchor = models[es[j].elem].anchor
                        => es[i].id = es[j].id

\* atom.xml saved with two entries of the same id, and with an entry whose id
\* is an href resolved against the base
C6_Witness ==
    /\ Saved(output_full_filename)
    /\ LET es == FileEntries(output_full_filename)
       IN  /\ \E i, j \in DOMAIN es : i # j /\ es[i].id = es[j].id
           /\ \E i \in DOMAIN es : es[i].id # base_url

\* C7: once the page is obtained and the loop over its items is left, there
\* is one record for each of the N matched items.
C7_ExtractionTotal ==
    (response = "ok" /\ pc \notin {"parse", "extract"}) =>
        /\ Len(entries_data) = Len(page)
        /\ {entries_data[i].entry.elem : i \in DOMAIN entries_data} = 1..Len(page)

\* C8: for a file:// argument the feed id, the feed self-link and the base of
\* the entry hrefs are the argument itself.
C8_FileBaseIsUrl ==
    (StartsWith(url, FilePrefix) /\ base_feed_element # <<>>) =>
        /\ base_url = url
        /\ base_feed_element[1].id = url
        /\ base_feed_element[1].link = url

\* C9: the shell never has entry children and keeps its metadata, and a saved
\* file holds exactly the entries of the list passed to its call.
C9_ShellNotMutated ==
    base_feed_element # <<>> =>
        /\ base_feed_element[1] = BaseFeed(base_url, FeedUpdatedAt)
        /\ Saved(output_full_filename) =>
              files[output_full_filename].data =
                  <<XmlDecl, BaseFeed(base_url, FeedUpdatedAt)>>
                  \o Entries(entries_data) \o <<FeedEnd>>
        /\ Saved(output_recent_filename) =>
              /\ files[output_recent_filename].data =
                    <<XmlDecl, BaseFeed(base_url, FeedUpdatedAt)>>
                    \o Entries(recent_entries_data) \o <<FeedEnd>>
              /\ Len(recent_entries_data) <= RecentLimit

\* both files saved, the full one with more entries than the recent one
C9_Witness ==
    /\ pc = "exit"
    /\ Saved(output_full_filename)
    /\ Saved(output_recent_filename)
    /\ Len(FileEntries(output_recent_filename)) = RecentLimit
    /\ Len(FileEntries(output_full_filename)) > RecentLimit
    /\ base_feed_element[1].children = <<>>

\* a dated entry older than the feed-level updated instant
IsOldDated(e) == ~IsFallback(e) /\ UpdatedAt(e) < FeedUpdatedAt

\* C10: when no clock reading was earlier than the one before it, a fallback
\* entry is not earlier than the feed-level updated instant, it precedes in
\* atom.xml every dated entry older than that instant, and
\* atom-recent-20.xml holds such a dated entry only if it holds every
\* fallback entry.
C10_FallbackFirst ==
    ~clock_regressed =>
        /\ \A i \in DOMAIN entries_data :
             IsFallback(entries_data[i].entry) => entries_data[i].dt >= FeedUpdatedAt
        /\ Saved(output_full_filename) =>
             LET es == FileEntries(output_full_filename)
             IN  \A i, j \in DOMAIN es :
                    (IsFallback(es[i]) /\ IsOldDated(es[j])) => i < j
        /\ Saved(output_recent_filename) =>
             LET rs == FileEntries(output_recent_filename)
             IN  (\E j \in DOMAIN rs : IsOldDated(rs[j])) =>
                    \A i \in DOMAIN entries_data :
                       IsFallback(entries_data[i].entry) =>
                          \E k \in DOMAIN rs : rs[k] = entries_data[i].entry

\* more than 20 items, the last one extracted has no usable date and heads
\* both files, and an older dated entry did not make it into the recent file
C10_Witness ==
    /\ ~clock_regressed
    /\ Saved(output_full_filename)
    /\ Saved(output_recent_filename)
    /\ Len(models) > RecentLimit
    /\ LET es == FileEntries(output_full_filename)
           rs == FileEntries(output_recent_filename)
       IN  /\ IsFallback(rs[1])
           /\ rs[1].elem = Len(models)
           /\ IsOldDated(es[Len(es)])
           /\ \A k \in DOMAIN rs : rs[k] # es[Len(es)]

====
